---------------------------- MODULE Spec2Model ----------------------------
(***************************************************************************)
(* State-machine model of the billing transaction of the retail            *)
(* management application (src/inv.py, process_bill_and_save) over the     *)
(* SQLite store whose schema init_db creates.                              *)
(*                                                                         *)
(* Text values that the code only compares are TLA+ strings.  Text values  *)
(* that the code transforms (upper(), replace(), split(), `in`) are        *)
(* sequences of one-character strings, so that the transformation is       *)
(* computed.  Money is counted in thousandths of a rupee (1000 = 1.00), so *)
(* that round(x, 2) is a real conversion.                                  *)
(***************************************************************************)
EXTENDS Integers, Sequences, FiniteSets, TLC

(***************************************************************************)
(* Bounds of the model.                                                    *)
(***************************************************************************)
\* Requests are accepted while fewer than MaxBills bills are stored.
MaxBills == 2

\* Products are added while the highest product id is below MaxProductId.
MaxProductId == 4

\* The listings are paged over stores of up to MaxRows rows a table.
MaxRows == 31

\* The connections (one per HTTP request being served).
Conns == {1, 2}

\* Python's None for a JSON field that is absent or null.
NoneVal == "<None>"

(***************************************************************************)
(* Text helpers (Python str methods), on sequences of characters.          *)
(***************************************************************************)
LowerChars == <<"a","b","c","d","e","f","g","h","i","j","k","l","m",
                "n","o","p","q","r","s","t","u","v","w","x","y","z">>
UpperChars == <<"A","B","C","D","E","F","G","H","I","J","K","L","M",
                "N","O","P","Q","R","S","T","U","V","W","X","Y","Z">>

\* str.upper() of one character.
UpperChar(ch) ==
    IF \E k \in 1..Len(LowerChars) : LowerChars[k] = ch
    THEN UpperChars[CHOOSE k \in 1..Len(LowerChars) : LowerChars[k] = ch]
    ELSE ch

\* str.upper()
Upper(s) == [k \in 1..Len(s) |-> UpperChar(s[k])]

\* str.replace('-', '')
RECURSIVE RemoveDash(_)
RemoveDash(s) ==
    IF s = <<>> THEN <<>>
    ELSE IF Head(s) = "-" THEN RemoveDash(Tail(s))
    ELSE <<Head(s)>> \o RemoveDash(Tail(s))

\* sub in s
Contains(s, sub) ==
    \E k \in 1..(Len(s) - Len(sub) + 1) : SubSeq(s, k, k + Len(sub) - 1) = sub

\* Position of the first space of s, 0 when it has none.
FirstSpace(s) ==
    IF \E k \in 1..Len(s) : s[k] = " "
    THEN CHOOSE k \in 1..Len(s) : s[k] = " " /\ \A j \in 1..(k-1) : s[j] # " "
    ELSE 0

\* s.split(' ', 1)
SplitFirstSpace(s) ==
    IF FirstSpace(s) = 0 THEN <<s>>
    ELSE <<SubSeq(s, 1, FirstSpace(s) - 1), SubSeq(s, FirstSpace(s) + 1, Len(s))>>

\* round(x, 2) of an amount in thousandths: the nearest hundredth.  A tie
\* (x ends in 5) goes to the even hundredth; Python decides a tie by the
\* binary value of the float, and no amount of the model's inputs is a tie.
Round2(x) ==
    LET r == x % 10
        down == x - r
    IN  IF r < 5 THEN down
        ELSE IF r > 5 THEN down + 10
        ELSE IF (down \div 10) % 2 = 0 THEN down ELSE down + 10

\* `not x` for a text field: None and the empty string are falsy.
Falsy(x) == x = NoneVal \/ x = ""

\* The characters of a text the code only compares elsewhere (a TLA+
\* string), as a sequence of one-character strings.
Chars(s) == [k \in 1..Len(s) |-> SubSeq(s, k, k)]

\* str.strip(): the text without its leading and trailing spaces.
RECURSIVE StripLeft(_)
StripLeft(s) == IF s # <<>> /\ Head(s) = " " THEN StripLeft(Tail(s)) ELSE s

RECURSIVE StripRight(_)
StripRight(s) ==
    IF s # <<>> /\ s[Len(s)] = " " THEN StripRight(SubSeq(s, 1, Len(s) - 1)) ELSE s

Strip(s) == StripRight(StripLeft(s))

DigitChars == <<"0","1","2","3","4","5","6","7","8","9">>

\* The decimal text of a number n >= 0 (SQLite's conversion of an INTEGER
\* that LIKE is applied to).
RECURSIVE Digits(_)
Digits(n) ==
    IF n < 10 THEN <<DigitChars[n + 1]>>
    ELSE Digits(n \div 10) \o <<DigitChars[(n % 10) + 1]>>

\* The number a form field of decimal digits is stored as in a column of
\* numeric affinity.
RECURSIVE ParseNumber(_)
ParseNumber(text) ==
    IF text = <<>> THEN 0
    ELSE 10 * ParseNumber(SubSeq(text, 1, Len(text) - 1))
         + (CHOOSE d \in 0..9 : DigitChars[d + 1] = text[Len(text)])

\* SQLite's LIKE: letters match without regard to case, `_` in the pattern
\* matches any one character.  The search terms of the model hold no `%`.
LikeChar(ch, p) == p = "_" \/ UpperChar(ch) = UpperChar(p)

\* text LIKE 'term%'
LikePrefix(text, term) ==
    /\ Len(term) <= Len(text)
    /\ \A k \in 1..Len(term) : LikeChar(text[k], term[k])

\* text LIKE '%term%'
LikeContains(text, term) ==
    \E j \in 0..(Len(text) - Len(term)) :
        \A k \in 1..Len(term) : LikeChar(text[j + k], term[k])

\* The order of texts under SQLite's BINARY collation: by character code.
CodeOrder == <<" ", "-">> \o DigitChars \o UpperChars \o <<"_">> \o LowerChars

CharCode(ch) == CHOOSE k \in 1..Len(CodeOrder) : CodeOrder[k] = ch

TextLess(a, b) ==
    \E k \in 1..(Len(a) + 1) :
        /\ k <= Len(b)
        /\ \A j \in 1..(k - 1) : a[j] = b[j]
        /\ k = Len(a) + 1 \/ CharCode(a[k]) < CharCode(b[k])

(***************************************************************************)
(* Literals of the code.                                                   *)
(***************************************************************************)
sHOTEL == <<"H","O","T","E","L">>
sWHOLESALE == <<"W","H","O","L","E","S","A","L","E">>
sRETAIL == <<"R","E","T","A","I","L">>
sCREDIT == <<"C","R","E","D","I","T">>
sCASH == <<"C","A","S","H">>
sUPI == <<"U","P","I">>
sCARD == <<"C","A","R","D">>

\* CHECK(PAYMENT_METHOD IN ('UPI', 'CASH', 'CREDIT', 'CARD'))
ValidPaymentMethods == {sUPI, sCASH, sCREDIT, sCARD}

\* CHECK(CUSTOMER_TYPE IN ('WHOLESALE', 'RETAIL', 'HOTEL-LINE'))
ValidCustomerTypes == {"WHOLESALE", "RETAIL", "HOTEL-LINE"}

(***************************************************************************)
(* The store.  A table with an AUTOINCREMENT key whose rows are never      *)
(* deleted is a sequence indexed by that key; INVENTORY, whose rows can be *)
(* deleted, is a function from the ids of its rows, with the highest id    *)
(* ever given beside it.  The rows are of the shape init_db seeds, with    *)
(* small stocks and amounts and short names: one product of one-word brand *)
(* and name, one whose brand holds a space, one whose name holds a space,  *)
(* and one customer with dues.                                             *)
(***************************************************************************)
Product(id, brand, product, category, stock, mrp, cost, wholesale, retail, hotel) ==
    [ID |-> id, BRAND |-> brand, PRODUCT |-> product, CATEGORY |-> category,
     STOCK |-> stock, MRP |-> mrp, PURCHASE_RATE |-> cost,
     WHOLESALE_RATE |-> wholesale, RETAIL_RATE |-> retail, HOTEL_RATE |-> hotel]

InitInventory ==
    [id \in {1, 2, 3} |->
        CASE id = 1 -> Product(1, <<"K">>, <<"M">>, <<"g">>, 2, 1500, 1000, 1100, 1300, 1200)
          [] id = 2 -> Product(2, <<"A"," ","G">>, <<"M">>, <<"e">>, 1, 3500, 2000, 2100, 2300, 2200)
          [] id = 3 -> Product(3, <<"A">>, <<"G"," ","M">>, <<"g">>, 1, 500, 0, 100, 300, 200)]

InitCustomers ==
    << [CUSTOMER_ID |-> 1, CUSTOMER_NAME |-> "Om", MOBILE_NO |-> "98",
        CUSTOMER_TYPE |-> "RETAIL", bill_amount |-> 1000, paid_amount |-> 500,
        unpaid_amount |-> 500] >>

InitStore ==
    [inventory |-> InitInventory, inventory_seq |-> 3,
     customers |-> InitCustomers, bills |-> <<>>, bill_items |-> <<>>]

VARIABLES
    db,     \* the committed store
    work,   \* the store as the connection in a write transaction sees it
    lock,   \* the connection holding SQLite's write lock, 0 when none does
    pc,     \* pc[c]: where connection c's request handler stands
    req,    \* req[c]: the JSON body of the request c serves
    loc,    \* loc[c]: the handler's local variables
    resp,   \* resp[c]: the response of the handler
    pre,    \* pre[c]: the committed store when the request arrived
    view    \* view[c]: what the read-only handler (lookup, listing) c ran returned

vars == <<db, work, lock, pc, req, loc, resp, pre, view>>

NoReq == [customer_name |-> NoneVal, phone |-> NoneVal, customer_type |-> <<>>,
          payment_method |-> <<>>, products |-> <<>>,
          subtotal |-> 0, tax |-> 0, discount |-> 0, total |-> 0]

NoLoc == [customer_type_db |-> "", customer_id |-> 0, i |-> 1,
          row_id |-> 0, current_stock |-> 0,
          total_items |-> 0, profit_earned |-> 0, bill_items_data |-> <<>>,
          bill_id |-> 0, status |-> ""]

\* A response: the HTTP status and the JSON body's fields.
Response(status, error, prod_name, available, bill_id, total_amount, profit_earned) ==
    [status |-> status, error |-> error, prod_name |-> prod_name,
     available |-> available, bill_id |-> bill_id,
     total_amount |-> total_amount, profit_earned |-> profit_earned]

NoResp == Response(0, "", <<>>, 0, 0, 0, 0)

ErrorResponse(status, error) == Response(status, error, <<>>, 0, 0, 0, 0)

\* No read-only handler has answered on the connection.
NoView == [handler |-> ""]

Init ==
    /\ db = InitStore
    /\ work = InitStore
    /\ lock = 0
    /\ pc = [c \in Conns |-> "idle"]
    /\ req = [c \in Conns |-> NoReq]
    /\ loc = [c \in Conns |-> NoLoc]
    /\ resp = [c \in Conns |-> NoResp]
    /\ pre = [c \in Conns |-> InitStore]
    /\ view = [c \in Conns |-> NoView]

(***************************************************************************)
(* SQLite through Python's sqlite3 module (connect_to_database sets no     *)
(* isolation_level): a SELECT outside a transaction reads the committed    *)
(* store; the first INSERT or UPDATE of a connection opens a transaction   *)
(* and takes the single write lock; the transaction's own reads see its    *)
(* writes; commit publishes them and rollback discards them.               *)
(***************************************************************************)
\* The store as connection c reads it.
View(c) == IF lock = c THEN work ELSE db

\* Connection c may execute a writing statement: no other connection holds
\* the write lock.
CanWrite(c) == lock \in {0, c}

\* The smallest element of a non-empty set of row ids: the row fetchone()
\* returns.
FirstRow(rows) == CHOOSE k \in rows : \A j \in rows : k <= j

\* The committed store after conn.rollback(): the uncommitted writes are
\* discarded.
StoreAfterRollbackKeepsWrites(committed, uncommitted) == uncommitted

StoreAfterRollback(committed, uncommitted) == committed

\* The two except branches of process_bill_and_save: roll back, answer 500.
Abort(c, response) ==
    /\ db' = StoreAfterRollback(db, View(c))
    /\ work' = IF lock = c THEN db' ELSE work
    /\ lock' = IF lock = c THEN 0 ELSE lock
    /\ pc' = [pc EXCEPT ![c] = "done"]
    /\ resp' = [resp EXCEPT ![c] = response]
    /\ UNCHANGED <<req, loc, pre, view>>

(***************************************************************************)
(* process_bill_and_save, statement by statement.                          *)
(***************************************************************************)
\* The mapping of the request's customer type to the stored one.
CustomerTypeDb(customer_type) ==
    LET customer_type_input == RemoveDash(Upper(customer_type))
    IN  IF Contains(customer_type_input, sHOTEL) THEN "HOTEL-LINE"
        ELSE IF Contains(customer_type_input, sWHOLESALE) THEN "WHOLESALE"
        ELSE IF Contains(customer_type_input, sRETAIL) THEN "RETAIL"
        ELSE "RETAIL"

\* if not customer_name or not customer_phone or not products_to_bill
MissingDataNoPhoneCheck(r) ==
    Falsy(r.customer_name) \/ r.products = <<>>

MissingData(r) ==
    Falsy(r.customer_name) \/ Falsy(r.phone) \/ r.products = <<>>

\* The request arrives: the fields are read and validated, the connection
\* is opened.
Receive(c, r) ==
    /\ pc[c] = "idle"
    /\ Len(db.bills) < MaxBills
    /\ req' = [req EXCEPT ![c] = r]
    /\ pre' = [pre EXCEPT ![c] = db]
    /\ IF MissingData(r)
       THEN /\ pc' = [pc EXCEPT ![c] = "done"]
            /\ resp' = [resp EXCEPT ![c] = ErrorResponse(400, "MissingData")]
            /\ UNCHANGED loc
       ELSE /\ pc' = [pc EXCEPT ![c] = "sel_customer"]
            /\ loc' = [loc EXCEPT ![c] =
                          [NoLoc EXCEPT !.customer_type_db = CustomerTypeDb(r.customer_type)]]
            /\ UNCHANGED resp
    /\ UNCHANGED <<db, work, lock, view>>

\* SELECT CUSTOMER_ID, CUSTOMER_TYPE FROM CUSTOMER WHERE MOBILE_NO=?
SelectCustomer(c) ==
    /\ pc[c] = "sel_customer"
    /\ LET customers == View(c).customers
           rows == {k \in 1..Len(customers) : customers[k].MOBILE_NO = req[c].phone}
       IN  IF rows # {}
           THEN /\ loc' = [loc EXCEPT ![c].customer_id = customers[FirstRow(rows)].CUSTOMER_ID]
                /\ pc' = [pc EXCEPT ![c] = "sel_item"]
           ELSE /\ pc' = [pc EXCEPT ![c] = "ins_customer"]
                /\ UNCHANGED loc
    /\ UNCHANGED <<db, work, lock, req, resp, pre, view>>

\* The row INSERT INTO CUSTOMER (CUSTOMER_NAME, MOBILE_NO, CUSTOMER_TYPE)
\* creates: the three aggregates take the schema's DEFAULT 0.0.
NewCustomerOpeningDues(id, name, phone, type) ==
    [CUSTOMER_ID |-> id, CUSTOMER_NAME |-> name, MOBILE_NO |-> phone,
     CUSTOMER_TYPE |-> type, bill_amount |-> 1000, paid_amount |-> 0,
     unpaid_amount |-> 1000]

NewCustomer(id, name, phone, type) ==
    [CUSTOMER_ID |-> id, CUSTOMER_NAME |-> name, MOBILE_NO |-> phone,
     CUSTOMER_TYPE |-> type, bill_amount |-> 0, paid_amount |-> 0,
     unpaid_amount |-> 0]

\* The constraints of table CUSTOMER an insert must meet.
CustomerConstraintsHold(customers, name, phone, type) ==
    /\ name # NoneVal
    /\ phone # NoneVal
    /\ type \in ValidCustomerTypes
    /\ \A k \in 1..Len(customers) : customers[k].CUSTOMER_NAME # name

\* INSERT INTO CUSTOMER ...; customer_id = cursor.lastrowid
InsertCustomer(c) ==
    /\ pc[c] = "ins_customer"
    /\ CanWrite(c)
    /\ LET customers == View(c).customers
           id == Len(customers) + 1
       IN  IF CustomerConstraintsHold(customers, req[c].customer_name, req[c].phone,
                                      loc[c].customer_type_db)
           THEN /\ work' = [View(c) EXCEPT !.customers =
                               Append(@, NewCustomer(id, req[c].customer_name, req[c].phone,
                                                     loc[c].customer_type_db))]
                /\ lock' = c
                /\ loc' = [loc EXCEPT ![c].customer_id = id]
                /\ pc' = [pc EXCEPT ![c] = "sel_item"]
                /\ UNCHANGED <<db, req, resp, pre, view>>
           ELSE Abort(c, ErrorResponse(500, "IntegrityError"))

\* if current_stock < qty
InsufficientStockOffByOne(current_stock, qty) == current_stock + 1 < qty

InsufficientStockNeverRaised(current_stock, qty) == FALSE

InsufficientStock(current_stock, qty) == current_stock < qty

\* unit_profit = sell_price - purchase_rate
UnitProfitIgnoresCost(sell_price, purchase_rate) == sell_price

UnitProfit(sell_price, purchase_rate) == sell_price - purchase_rate

\* The rows SELECT ID, PURCHASE_RATE, STOCK FROM INVENTORY WHERE BRAND=? AND
\* PRODUCT=? finds for a display name, split on its first space.
ProductRows(inventory, prod_name) ==
    LET parts == SplitFirstSpace(prod_name)
        brand_search == parts[1]
        product_search == IF Len(parts) > 1 THEN parts[2] ELSE prod_name
    IN  {id \in DOMAIN inventory :
            /\ inventory[id].BRAND = brand_search
            /\ inventory[id].PRODUCT = product_search}

\* One pass of the loop up to the UPDATE: the item's fields, the product
\* lookup, the stock check, the profit.  PURCHASE_RATE is NOT NULL in the
\* schema, so the code's `is not None` test always takes the column's value.
SelectItem(c) ==
    /\ pc[c] = "sel_item"
    /\ LET item == req[c].products[loc[c].i]
       IN  IF ~ ({"name", "quantity", "price"} \subseteq DOMAIN item)
           THEN Abort(c, ErrorResponse(500, "KeyError"))
           ELSE
           LET prod_name == item.name
               qty == item.quantity
               sell_price == item.price
               inventory == View(c).inventory
               rows == ProductRows(inventory, prod_name)
           IN  IF rows = {}
               THEN Abort(c, Response(500, "ProductNotFound", prod_name, 0, 0, 0, 0))
               ELSE
               LET inventory_row == inventory[FirstRow(rows)]
                   current_stock == inventory_row.STOCK
                   purchase_rate == inventory_row.PURCHASE_RATE
                   unit_profit == UnitProfit(sell_price, purchase_rate)
               IN  IF InsufficientStock(current_stock, qty)
                   THEN Abort(c, Response(500, "InsufficientStock", prod_name,
                                          current_stock, 0, 0, 0))
                   ELSE /\ loc' = [loc EXCEPT
                                ![c].row_id = inventory_row.ID,
                                ![c].current_stock = current_stock,
                                ![c].profit_earned = @ + unit_profit * qty,
                                ![c].total_items = @ + qty,
                                ![c].bill_items_data =
                                    Append(@, <<prod_name, qty, sell_price, unit_profit>>)]
                        /\ pc' = [pc EXCEPT ![c] = "upd_item"]
                        /\ UNCHANGED <<db, work, lock, req, resp, pre, view>>

\* STOCK = STOCK - ?
StockAfterSaleByOne(stock, qty) == stock - 1

StockAfterSale(stock, qty) == stock - qty

\* UPDATE INVENTORY SET STOCK = STOCK - ? WHERE ID=?, and the loop's next pass.
UpdateItem(c) ==
    /\ pc[c] = "upd_item"
    /\ CanWrite(c)
    /\ LET qty == req[c].products[loc[c].i].quantity
           id == loc[c].row_id
           inventory == View(c).inventory
       IN  work' = IF id \in DOMAIN inventory
                   THEN [View(c) EXCEPT !.inventory[id].STOCK = StockAfterSale(@, qty)]
                   ELSE View(c)
    /\ lock' = c
    /\ loc' = [loc EXCEPT ![c].i = @ + 1]
    /\ pc' = [pc EXCEPT ![c] = IF loc[c].i = Len(req[c].products)
                                THEN "ins_bill" ELSE "sel_item"]
    /\ UNCHANGED <<db, req, resp, pre, view>>

\* payment_method.upper() == 'CREDIT'
IsCredit(payment_method) == Upper(payment_method) = sCREDIT

\* status = "PENDING" if payment_method.upper() == 'CREDIT' else "SUCCESSFUL"
BillStatusCaseSensitive(payment_method) ==
    IF payment_method = sCREDIT THEN "PENDING" ELSE "SUCCESSFUL"

BillStatus(payment_method) ==
    IF Upper(payment_method) = sCREDIT THEN "PENDING" ELSE "SUCCESSFUL"

\* BILL_AMOUNT is the request's subtotal.
BillAmountFromTotal(r) == r.total

BillAmount(r) == r.subtotal

\* The row INSERT INTO BILLS creates.
NewBill(id, r, l) ==
    [BILL_ID |-> id, CUSTOMER_ID |-> l.customer_id, TOTAL_ITEMS |-> l.total_items,
     BILL_AMOUNT |-> BillAmount(r), TAX_AMOUNT |-> r.tax,
     DISCOUNT_AMOUNT |-> r.discount, TOTAL_AMOUNT |-> r.total,
     PROFIT_EARNED |-> l.profit_earned, PAYMENT_METHOD |-> Upper(r.payment_method),
     PAYMENT_DATE |-> "today", STATUS |-> BillStatus(r.payment_method)]

\* The constraints of table BILLS an insert must meet.
BillConstraintsHold(bill) ==
    /\ bill.PAYMENT_METHOD \in ValidPaymentMethods
    /\ bill.STATUS \in {"SUCCESSFUL", "PENDING"}

\* INSERT INTO BILLS ...; bill_id = cursor.lastrowid
InsertBill(c) ==
    /\ pc[c] = "ins_bill"
    /\ CanWrite(c)
    /\ LET id == Len(View(c).bills) + 1
           bill == NewBill(id, req[c], loc[c])
       IN  IF BillConstraintsHold(bill)
           THEN /\ work' = [View(c) EXCEPT !.bills = Append(@, bill)]
                /\ lock' = c
                /\ loc' = [loc EXCEPT ![c].bill_id = id, ![c].status = bill.STATUS]
                /\ pc' = [pc EXCEPT ![c] = IF IsCredit(req[c].payment_method)
                                            THEN "upd_dues" ELSE "ins_items"]
                /\ UNCHANGED <<db, req, resp, pre, view>>
           ELSE Abort(c, ErrorResponse(500, "IntegrityError"))

\* unpaid_amount = unpaid_amount + ?, bill_amount = bill_amount + ?
DuesAfterCreditFromStaleRead(customer, r) ==
    LET read == IF customer.CUSTOMER_ID \in DOMAIN InitCustomers
                THEN InitCustomers[customer.CUSTOMER_ID] ELSE customer
    IN  [customer EXCEPT !.unpaid_amount = read.unpaid_amount + r.total,
                         !.bill_amount = read.bill_amount + r.total]

DuesAfterCreditBySubtotal(customer, r) ==
    [customer EXCEPT !.unpaid_amount = @ + r.subtotal, !.bill_amount = @ + r.subtotal]

DuesAfterCredit(customer, r) ==
    [customer EXCEPT !.unpaid_amount = @ + r.total, !.bill_amount = @ + r.total]

\* UPDATE CUSTOMER SET unpaid_amount = ..., bill_amount = ... WHERE CUSTOMER_ID = ?
UpdateDues(c) ==
    /\ pc[c] = "upd_dues"
    /\ CanWrite(c)
    /\ LET customers == View(c).customers
       IN  work' = [View(c) EXCEPT !.customers =
                       [k \in 1..Len(customers) |->
                           IF customers[k].CUSTOMER_ID = loc[c].customer_id
                           THEN DuesAfterCredit(customers[k], req[c])
                           ELSE customers[k]]]
    /\ lock' = c
    /\ pc' = [pc EXCEPT ![c] = "ins_items"]
    /\ UNCHANGED <<db, req, loc, resp, pre, view>>

\* The rows executemany(INSERT INTO BILL_ITEMS ...) creates.
NewBillItems(first_id, bill_id, bill_items_data) ==
    [k \in 1..Len(bill_items_data) |->
        [ITEM_ID |-> first_id + k - 1, BILL_ID |-> bill_id,
         PRODUCT_NAME |-> bill_items_data[k][1], QUANTITY |-> bill_items_data[k][2],
         PRICE |-> bill_items_data[k][3], UNIT_PROFIT |-> bill_items_data[k][4]]]

\* cursor.executemany("INSERT INTO BILL_ITEMS ...", bill_items_insert_data)
InsertItems(c) ==
    /\ pc[c] = "ins_items"
    /\ CanWrite(c)
    /\ work' = [View(c) EXCEPT !.bill_items =
                   @ \o NewBillItems(Len(@) + 1, loc[c].bill_id, loc[c].bill_items_data)]
    /\ lock' = c
    /\ pc' = [pc EXCEPT ![c] = "commit"]
    /\ UNCHANGED <<db, req, loc, resp, pre, view>>

\* conn.commit() and the 200 response.
Commit(c) ==
    /\ pc[c] = "commit"
    /\ CanWrite(c)
    /\ db' = View(c)
    /\ work' = db'
    /\ lock' = 0
    /\ pc' = [pc EXCEPT ![c] = "done"]
    /\ resp' = [resp EXCEPT ![c] =
                   Response(200, "", <<>>, 0, loc[c].bill_id,
                            Round2(req[c].total), Round2(loc[c].profit_earned))]
    /\ UNCHANGED <<req, loc, pre, view>>

\* The handler's positions at which it executes a statement of the store,
\* and those among them at which the statement writes.
StatementPcs ==
    {"sel_customer", "ins_customer", "sel_item", "upd_item", "ins_bill",
     "upd_dues", "ins_items", "commit"}

WritePcs == StatementPcs \ {"sel_customer", "sel_item"}

\* except sqlite3.Error: a statement fails in the store (I/O, full disk).
StoreFailure(c) ==
    /\ pc[c] \in StatementPcs
    /\ Abort(c, ErrorResponse(500, "OperationalError"))

\* except sqlite3.Error: another connection holds the write lock for longer
\* than connect()'s timeout ("database is locked").
BusyTimeout(c) ==
    /\ pc[c] \in WritePcs
    /\ ~ CanWrite(c)
    /\ Abort(c, ErrorResponse(500, "DatabaseLocked"))

\* close_db at the end of the request, of the billing handler ("done") or of
\* a read-only one ("served"); the connection serves the next one.
Close(c) ==
    /\ pc[c] \in {"done", "served"}
    /\ pc' = [pc EXCEPT ![c] = "idle"]
    /\ req' = [req EXCEPT ![c] = NoReq]
    /\ loc' = [loc EXCEPT ![c] = NoLoc]
    /\ resp' = [resp EXCEPT ![c] = NoResp]
    /\ pre' = [pre EXCEPT ![c] = InitStore]
    /\ view' = [view EXCEPT ![c] = NoView]
    /\ UNCHANGED <<db, work, lock>>

(***************************************************************************)
(* The other handlers.  A read-only handler runs its SELECTs on the        *)
(* committed store and answers; an inventory handler runs one writing      *)
(* statement and commits.  What the handler answered (the JSON body, the   *)
(* template's arguments, the flashed message) is kept in view[c] until the *)
(* connection closes.                                                      *)
(***************************************************************************)
PER_PAGE_INVENTORY == 10
PER_PAGE_CUSTOMER == 15
PER_PAGE_ORDERS == 10
LOW_STOCK_THRESHOLD == 50

\* The threshold of the dashboard's low-stock counter.
DashboardLowStock == 30

Min(a, b) == IF a < b THEN a ELSE b

\* The handler answers on connection c.
Serve(c, response) ==
    /\ pc[c] = "idle"
    /\ pc' = [pc EXCEPT ![c] = "served"]
    /\ view' = [view EXCEPT ![c] = response]
    /\ UNCHANGED <<db, work, lock, req, loc, resp, pre>>

\* The elements of a set of row ids in ascending order: the order in which
\* a scan of the table yields the rows.
Ascending(ids) ==
    [p \in 1..Cardinality(ids) |->
        CHOOSE id \in ids : Cardinality({j \in ids : j < id}) = p - 1]

\* str.lower() of one character.
LowerChar(ch) ==
    IF \E k \in 1..Len(UpperChars) : UpperChars[k] = ch
    THEN LowerChars[CHOOSE k \in 1..Len(UpperChars) : UpperChars[k] = ch]
    ELSE ch

IsLetter(ch) == UpperChar(ch) # ch \/ LowerChar(ch) # ch

\* str.title(): a letter after a non-letter is upper case, any other lower.
Title(s) ==
    [k \in 1..Len(s) |->
        IF k = 1 \/ ~ IsLetter(s[k - 1]) THEN UpperChar(s[k]) ELSE LowerChar(s[k])]

\* get_customer_suggestions: the customers whose name LIKE 'term%'.
CustomerSuggestions(customers, term) ==
    LET search_term == Strip(term)
        rows == SelectSeq(customers,
                          LAMBDA row : LikePrefix(Chars(row.CUSTOMER_NAME), search_term))
    IN  IF search_term = <<>> THEN <<>>
        ELSE [k \in 1..Len(rows) |->
                 [name |-> Strip(Chars(rows[k].CUSTOMER_NAME)),
                  mobile |-> rows[k].MOBILE_NO,
                  type |-> Title(Chars(rows[k].CUSTOMER_TYPE))]]

GetCustomerSuggestions(c, term) ==
    Serve(c, [handler |-> "get_customer_suggestions", term |-> term, status |-> 200,
              body |-> CustomerSuggestions(db.customers, term)])

\* price_column_map.get(customer_type, 'RETAIL_RATE'), of the customer type
\* in upper case and without its dashes.
PriceColumn(customer_type) ==
    CASE customer_type = sWHOLESALE -> "WHOLESALE_RATE"
      [] customer_type = sRETAIL -> "RETAIL_RATE"
      [] customer_type = sHOTEL -> "HOTEL_RATE"
      [] customer_type = sWHOLESALE \o <<"R">> -> "WHOLESALE_RATE"
      [] customer_type = sRETAIL \o <<"E","R">> -> "RETAIL_RATE"
      [] customer_type = sHOTEL \o <<"-","L","I","N","E">> -> "HOTEL_RATE"
      [] OTHER -> "RETAIL_RATE"

\* WHERE UPPER(BRAND) LIKE '%TERM%' OR UPPER(PRODUCT) LIKE '%TERM%'
SuggestionMatches(inventory, search_term) ==
    {id \in DOMAIN inventory :
        \/ LikeContains(Upper(inventory[id].BRAND), Upper(search_term))
        \/ LikeContains(Upper(inventory[id].PRODUCT), Upper(search_term))}

\* f"{row['BRAND']} {row['PRODUCT']}".strip()
DisplayName(row) == Strip(row.BRAND \o <<" ">> \o row.PRODUCT)

\* get_product_suggestions: name, price and MRP of the matching products.
ProductSuggestions(inventory, term, customer_type_arg) ==
    LET search_term == Strip(term)
        customer_type == RemoveDash(Upper(customer_type_arg))
        price_column == PriceColumn(customer_type)
        ids == Ascending(SuggestionMatches(inventory, search_term))
    IN  IF search_term = <<>> \/ customer_type = <<>> THEN <<>>
        ELSE [k \in 1..Len(ids) |->
                 [name |-> DisplayName(inventory[ids[k]]),
                  price |-> inventory[ids[k]][price_column],
                  mrp |-> inventory[ids[k]].MRP]]

GetProductSuggestions(c, term, customer_type) ==
    Serve(c, [handler |-> "get_product_suggestions", term |-> term,
              customer_type |-> customer_type, status |-> 200,
              body |-> ProductSuggestions(db.inventory, term, customer_type)])

\* total_pages = (total + per_page - 1) // per_page if total > 0 else 1
TotalPagesRoundedDown(total, per_page) ==
    IF total > 0 THEN total \div per_page ELSE 1

TotalPages(total, per_page) ==
    IF total > 0 THEN (total + per_page - 1) \div per_page ELSE 1

\* LIMIT ? OFFSET ? over the ordered rows: SQLite takes a negative OFFSET
\* for 0.
LimitOffset(rows, limit, offset) ==
    LET skip == IF offset < 0 THEN 0 ELSE offset
    IN  SubSeq(rows, skip + 1, Min(Len(rows), skip + limit))

\* One page of a listing: its rows and the number of pages.
Page(rows, page, per_page) ==
    [rows |-> LimitOffset(rows, per_page, (page - 1) * per_page),
     total_pages |-> TotalPages(Len(rows), per_page)]

ValidSortColumns == {"ID", "BRAND", "PRODUCT", "STOCK", "MRP", "CATEGORY"}
TextColumns == {"BRAND", "PRODUCT", "CATEGORY"}

\* Row a comes before row b under ORDER BY sort_by ASC or DESC.  SQLite
\* leaves the order of rows with equal keys open; it is taken to be the
\* order of the ids.
RowBefore(a, b, sort_by, descending) ==
    LET x == IF descending THEN b[sort_by] ELSE a[sort_by]
        y == IF descending THEN a[sort_by] ELSE b[sort_by]
    IN  IF x = y THEN a.ID < b.ID
        ELSE IF sort_by \in TextColumns THEN TextLess(x, y) ELSE x < y

\* The ordered rows with one more row put at its place.
InsertRow(rows, row, sort_by, descending) ==
    LET k == Cardinality({j \in 1..Len(rows) : RowBefore(rows[j], row, sort_by, descending)})
    IN  SubSeq(rows, 1, k) \o <<row>> \o SubSeq(rows, k + 1, Len(rows))

\* The rows of the given ids under ORDER BY sort_by.
RECURSIVE OrderBy(_, _, _, _)
OrderBy(inventory, ids, sort_by, descending) ==
    IF ids = {} THEN <<>>
    ELSE LET id == CHOOSE x \in ids : TRUE
         IN  InsertRow(OrderBy(inventory, ids \ {id}, sort_by, descending),
                       inventory[id], sort_by, descending)

\* AND (PRODUCT LIKE ? OR BRAND LIKE ? OR CATEGORY LIKE ?), when a search
\* text is given.
InventoryFilter(row, search_query) ==
    \/ search_query = <<>>
    \/ LikeContains(row.PRODUCT, search_query)
    \/ LikeContains(row.BRAND, search_query)
    \/ LikeContains(row.CATEGORY, search_query)

\* SELECT PRODUCT, STOCK FROM INVENTORY WHERE STOCK < threshold ORDER BY STOCK
LowStock(inventory, threshold) ==
    LET rows == OrderBy(inventory, {id \in DOMAIN inventory : inventory[id].STOCK < threshold},
                        "STOCK", FALSE)
    IN  [k \in 1..Len(rows) |-> [PRODUCT |-> rows[k].PRODUCT, STOCK |-> rows[k].STOCK]]

\* SELECT DISTINCT CATEGORY ... WHERE CATEGORY != '' ORDER BY CATEGORY ASC
Categories(inventory) ==
    LET cats == {inventory[id].CATEGORY : id \in DOMAIN inventory} \ {<<>>}
    IN  [p \in 1..Cardinality(cats) |->
            CHOOSE x \in cats : Cardinality({y \in cats : TextLess(y, x)}) = p - 1]

\* SELECT SUM(STOCK * PURCHASE_RATE) FROM INVENTORY, 0 for no row.
RECURSIVE InventoryValue(_, _)
InventoryValue(inventory, ids) ==
    IF ids = {} THEN 0
    ELSE LET id == CHOOSE x \in ids : TRUE
         IN  inventory[id].STOCK * inventory[id].PURCHASE_RATE
             + InventoryValue(inventory, ids \ {id})

\* The category chart: the number of products of each category, the empty
\* category shown as 'Unknown'.  The order of the chart's bars (by count,
\* open among equal counts) is left out.
CategoryChart(inventory) ==
    {[CATEGORY |-> IF cat = <<>> THEN Chars("Unknown") ELSE cat,
      count |-> Cardinality({id \in DOMAIN inventory : inventory[id].CATEGORY = cat})] :
        cat \in {inventory[id].CATEGORY : id \in DOMAIN inventory}}

\* inventory_page: a page of the filtered, sorted inventory and the panels
\* beside it.
InventoryPage(c, page, search, sort_by_arg, sort_order_arg) ==
    LET search_query == Strip(search)
        sort_by == IF sort_by_arg \in ValidSortColumns THEN sort_by_arg ELSE "ID"
        descending == Upper(sort_order_arg) = <<"D","E","S","C">>
        inventory == db.inventory
        matching == {id \in DOMAIN inventory : InventoryFilter(inventory[id], search_query)}
        listing == Page(OrderBy(inventory, matching, sort_by, descending),
                        page, PER_PAGE_INVENTORY)
    IN  Serve(c, [handler |-> "inventory_page", page |-> page, search_query |-> search_query,
                  sort_by |-> sort_by,
                  products |-> listing.rows, total_pages |-> listing.total_pages,
                  low_stock_products |->
                      LimitOffset(LowStock(inventory, LOW_STOCK_THRESHOLD), 10, 0),
                  categories |-> Categories(inventory),
                  total_inventory_value |-> InventoryValue(inventory, DOMAIN inventory),
                  category_chart |-> CategoryChart(inventory)])

GetAllLowStock(c) ==
    Serve(c, [handler |-> "get_all_low_stock", status |-> 200,
              body |-> LowStock(db.inventory, LOW_STOCK_THRESHOLD)])

\* str(n) of an integer.
IntText(n) == IF n < 0 THEN <<"-">> \o Digits(0 - n) ELSE Digits(n)

\* str(x) of a REAL amount in thousandths: 1500 is '1.5', 1000 is '1.0'.
MoneyText(x) ==
    LET frac == x % 1000
        digits == IF frac % 100 = 0 THEN Digits(frac \div 100)
                  ELSE IF frac % 10 = 0
                       THEN <<DigitChars[(frac \div 100) + 1]>> \o Digits((frac \div 10) % 10)
                       ELSE <<DigitChars[(frac \div 100) + 1],
                              DigitChars[((frac \div 10) % 10) + 1]>> \o Digits(frac % 10)
    IN  Digits(x \div 1000) \o <<".">> \o digits

\* {k: str(v) for k, v in dict(result).items()}
ProductData(row) ==
    [ID |-> Digits(row.ID), BRAND |-> row.BRAND, PRODUCT |-> row.PRODUCT,
     CATEGORY |-> row.CATEGORY, STOCK |-> IntText(row.STOCK), MRP |-> MoneyText(row.MRP),
     PURCHASE_RATE |-> MoneyText(row.PURCHASE_RATE),
     WHOLESALE_RATE |-> MoneyText(row.WHOLESALE_RATE),
     RETAIL_RATE |-> MoneyText(row.RETAIL_RATE), HOTEL_RATE |-> MoneyText(row.HOTEL_RATE)]

\* get_product_data
GetProductData(c, product_id) ==
    Serve(c, IF product_id \in DOMAIN db.inventory
             THEN [handler |-> "get_product_data", status |-> 200,
                   body |-> ProductData(db.inventory[product_id])]
             ELSE [handler |-> "get_product_data", status |-> 404])

GetCategories(c) ==
    Serve(c, [handler |-> "get_categories", status |-> 200,
              body |-> Categories(db.inventory)])

\* dashboard: the three counters of dashboardlogic.
Dashboard(c) ==
    Serve(c, [handler |-> "dashboard", customer_count |-> Len(db.customers),
              inventory_items |-> Cardinality(DOMAIN db.inventory),
              low_stock |-> Cardinality({id \in DOMAIN db.inventory :
                                            db.inventory[id].STOCK < DashboardLowStock})])

\* AND (CUSTOMER_NAME LIKE ? OR CUSTOMER_ID LIKE ? OR MOBILE_NO LIKE ?), when
\* a search text is given.
CustomerFilter(row, search_query) ==
    \/ search_query = <<>>
    \/ LikeContains(Chars(row.CUSTOMER_NAME), search_query)
    \/ LikeContains(Digits(row.CUSTOMER_ID), search_query)
    \/ LikeContains(Chars(row.MOBILE_NO), search_query)

\* customer_report: a page of the filtered customers, in the order of
\* their ids.
CustomerReport(c, page, search) ==
    LET search_query == Strip(search)
        matching == SelectSeq(db.customers, LAMBDA row : CustomerFilter(row, search_query))
        columns == [k \in 1..Len(matching) |->
                       [CUSTOMER_ID |-> matching[k].CUSTOMER_ID,
                        CUSTOMER_NAME |-> matching[k].CUSTOMER_NAME,
                        MOBILE_NO |-> matching[k].MOBILE_NO,
                        CUSTOMER_TYPE |-> matching[k].CUSTOMER_TYPE,
                        unpaid_amount |-> matching[k].unpaid_amount]]
        listing == Page(columns, page, PER_PAGE_CUSTOMER)
    IN  Serve(c, [handler |-> "customer_report", page |-> page,
                  search_query |-> search_query,
                  customers |-> listing.rows, total_pages |-> listing.total_pages])

\* FROM BILLS b JOIN CUSTOMER c ON b.CUSTOMER_ID = c.CUSTOMER_ID
Orders(bills, customers) ==
    LET joined == SelectSeq(bills, LAMBDA b : b.CUSTOMER_ID \in 1..Len(customers))
    IN  [k \in 1..Len(joined) |->
            [BILL_ID |-> joined[k].BILL_ID, PAYMENT_DATE |-> joined[k].PAYMENT_DATE,
             STATUS |-> joined[k].STATUS, TOTAL_AMOUNT |-> joined[k].TOTAL_AMOUNT,
             CUSTOMER_NAME |-> customers[joined[k].CUSTOMER_ID].CUSTOMER_NAME,
             MOBILE_NO |-> customers[joined[k].CUSTOMER_ID].MOBILE_NO]]

\* AND (c.CUSTOMER_NAME LIKE ? OR b.BILL_ID LIKE ?), when a search text is
\* given.
OrderFilter(row, search_query) ==
    \/ search_query = <<>>
    \/ LikeContains(Chars(row.CUSTOMER_NAME), search_query)
    \/ LikeContains(Digits(row.BILL_ID), search_query)

\* ORDER BY b.PAYMENT_DATE DESC, b.BILL_ID DESC: every bill of the model
\* carries the same date, so the order is that of the bill ids, descending.
Reversed(rows) == [k \in 1..Len(rows) |-> rows[Len(rows) + 1 - k]]

\* order_history: a page of the filtered bills with their customers.
OrderHistory(c, page, search) ==
    LET search_query == Strip(search)
        matching == SelectSeq(Orders(db.bills, db.customers),
                              LAMBDA row : OrderFilter(row, search_query))
        listing == Page(Reversed(matching), page, PER_PAGE_ORDERS)
    IN  Serve(c, [handler |-> "order_history", page |-> page,
                  search_query |-> search_query,
                  orders |-> listing.rows, total_pages |-> listing.total_pages,
                  total_orders |-> Len(matching)])

\* request.form.get(key) is not None
Present(form, key) == key \in DOMAIN form

RateFields == {"mrp", "purchase_rate", "wholesale_rate", "retail_rate", "hotel_rate"}

\* The constraints of table INVENTORY a row made of the form must meet: the
\* five rates NOT NULL, (BRAND, PRODUCT) unlike any other row's.
InventoryConstraintsHold(inventory, id, form) ==
    /\ RateFields \subseteq DOMAIN form
    /\ \A j \in DOMAIN inventory \ {id} :
          ~ (inventory[j].BRAND = form.brand /\ inventory[j].PRODUCT = form.product)

\* The row the form's fields make: STOCK has integer affinity, the rates
\* are REAL (kept in thousandths).  The forms of the model carry brand,
\* product and stock, the numbers in decimal digits.
FormRow(id, form, category) ==
    Product(id, form.brand, form.product, category, ParseNumber(form.stock),
            1000 * ParseNumber(form.mrp), 1000 * ParseNumber(form.purchase_rate),
            1000 * ParseNumber(form.wholesale_rate), 1000 * ParseNumber(form.retail_rate),
            1000 * ParseNumber(form.hotel_rate))

\* The store after INSERT INTO INVENTORY of a row with the next id.
StoreAfterAdd(store, row) ==
    [store EXCEPT
        !.inventory = [id \in DOMAIN @ \cup {row.ID} |-> IF id = row.ID THEN row ELSE @[id]],
        !.inventory_seq = row.ID]

\* The handler of an inventory form answers with a flashed message, after
\* committing the store it wrote (or leaving the store as it was).
ServeWrite(c, store, response) ==
    /\ pc[c] = "idle"
    /\ CanWrite(c)
    /\ db' = store
    /\ work' = store
    /\ pc' = [pc EXCEPT ![c] = "served"]
    /\ view' = [view EXCEPT ![c] = response]
    /\ UNCHANGED <<lock, req, loc, resp, pre>>

\* inventory_add
InventoryAdd(c, form) ==
    /\ db.inventory_seq < MaxProductId
    /\ LET category == IF Present(form, "category") THEN form.category ELSE <<>>
           new_category == IF Present(form, "new_category")
                           THEN Strip(form.new_category) ELSE <<>>
           final_category == IF new_category # <<>> THEN new_category ELSE category
           id == db.inventory_seq + 1
       IN  IF final_category = <<>>
           THEN ServeWrite(c, db, [handler |-> "inventory_add",
                                   flash |-> "Category is required."])
           ELSE IF InventoryConstraintsHold(db.inventory, id, form)
           THEN ServeWrite(c, StoreAfterAdd(db, FormRow(id, form, final_category)),
                           [handler |-> "inventory_add",
                            flash |-> "Product added successfully!"])
           ELSE ServeWrite(c, db, [handler |-> "inventory_add", flash |-> "IntegrityError"])

\* The store after UPDATE INVENTORY SET ... WHERE ID = ?
StoreAfterEdit(store, row) ==
    IF row.ID \in DOMAIN store.inventory
    THEN [store EXCEPT !.inventory[row.ID] = row]
    ELSE store

\* inventory_edit
InventoryEdit(c, product_id, form) ==
    IF product_id \in DOMAIN db.inventory
       /\ ~ InventoryConstraintsHold(db.inventory, product_id, form)
    THEN ServeWrite(c, db, [handler |-> "inventory_edit", flash |-> "Error updating product"])
    ELSE ServeWrite(c, StoreAfterEdit(db, FormRow(product_id, form, form.category)),
                    [handler |-> "inventory_edit", flash |-> "updated successfully!"])

\* The elements of a list.
Range(s) == {s[k] : k \in 1..Len(s)}

\* The store after DELETE FROM INVENTORY WHERE ID IN (ids)
StoreAfterDeleteWithItems(store, ids) ==
    [store EXCEPT
        !.inventory = [id \in DOMAIN @ \ Range(ids) |-> @[id]],
        !.bill_items = SelectSeq(@, LAMBDA it :
                           \A id \in DOMAIN store.inventory \cap Range(ids) :
                               DisplayName(store.inventory[id]) # it.PRODUCT_NAME)]

StoreAfterDelete(store, ids) ==
    [store EXCEPT !.inventory = [id \in DOMAIN @ \ Range(ids) |-> @[id]]]

\* inventory_delete
InventoryDelete(c, product_ids, current_page) ==
    IF product_ids = <<>>
    THEN ServeWrite(c, db, [handler |-> "inventory_delete", status |-> 400])
    ELSE LET store == StoreAfterDelete(db, product_ids)
             remaining_products == Cardinality(DOMAIN store.inventory)
             new_total_pages == TotalPages(remaining_products, PER_PAGE_INVENTORY)
         IN  ServeWrite(c, store, [handler |-> "inventory_delete", status |-> 200,
                                   redirect_page |-> Min(current_page, new_total_pages)])

(***************************************************************************)
(* The requests of the model.                                              *)
(***************************************************************************)
Item(name, quantity, price) == [name |-> name, quantity |-> quantity, price |-> price]

nKM == <<"K"," ","M">>
nAGM == <<"A"," ","G"," ","M">>
nZ == <<"Z">>

\* Line items: each product, quantities up to and above the stock and
\* below zero, a price with a fraction of a paisa, an unknown product, an
\* item without its quantity.
Lines ==
    {Item(nKM, 1, 1000), Item(nKM, 2, 1000), Item(nKM, -1, 1000),
     Item(nKM, 1, 2001), Item(nAGM, 1, 1000), Item(nZ, 1, 1000),
     [name |-> nKM, price |-> 1000]}

ProductLists == {<<>>} \cup {<<a>> : a \in Lines} \cup {<<a, b>> : a \in Lines, b \in Lines}

Names == {NoneVal, "", "Om", "Raj"}
Phones == {NoneVal, "", "98", "11"}
Types == {<<"r","e","t","a","i","l">>, <<"W","H","O","L","E","S","A","L","E","R">>,
          <<"H","o","t","e","l","-","L","i","n","e">>, <<"x">>}
Methods == {sCASH, <<"c","r","e","d","i","t">>, sUPI, sCARD, <<"C","H","E","Q","U","E">>}

BaseReq ==
    [customer_name |-> "Om", phone |-> "98", customer_type |-> <<"r","e","t","a","i","l">>,
     payment_method |-> sCASH, products |-> <<Item(nKM, 1, 1000)>>,
     subtotal |-> 1000, tax |-> 50, discount |-> 0, total |-> 1050]

CustomerRequests ==
    {[BaseReq EXCEPT !.customer_name = n, !.phone = p, !.customer_type = t] :
        n \in Names, p \in Phones, t \in Types}

PaymentRequests ==
    {[BaseReq EXCEPT !.customer_name = np[1], !.phone = np[2], !.payment_method = m,
                     !.subtotal = st[1], !.total = st[2]] :
        np \in {<<"Om", "98">>, <<"Raj", "11">>}, m \in Methods,
        st \in {<<1000, 1050>>, <<2000, -1000>>}}

ProductRequests == {[BaseReq EXCEPT !.products = l] : l \in ProductLists}

Requests == CustomerRequests \cup PaymentRequests \cup ProductRequests

\* Two requests served at once: the same product; the existing customer, or
\* a new phone under one name or under two names.
ConcRequests ==
    {[BaseReq EXCEPT !.customer_name = np[1], !.phone = np[2], !.payment_method = m,
                     !.products = <<Item(nKM, q, 1000)>>] :
        np \in {<<"Om", "98">>, <<"Raj", "11">>, <<"Sam", "11">>},
        m \in {sCASH, <<"c","r","e","d","i","t">>}, q \in {1, 2}}

(***************************************************************************)
(* Specifications.  Spec: requests served one after another (a single      *)
(* connection at a time).  SpecConc: two requests served at once, each on  *)
(* its own connection, their statements interleaved.                       *)
(***************************************************************************)
Next ==
    \/ \E r \in Requests : Receive(1, r)
    \/ SelectCustomer(1)
    \/ InsertCustomer(1)
    \/ SelectItem(1)
    \/ UpdateItem(1)
    \/ InsertBill(1)
    \/ UpdateDues(1)
    \/ InsertItems(1)
    \/ Commit(1)
    \/ StoreFailure(1)
    \/ Close(1)

Spec == Init /\ [][Next]_vars

NextConc ==
    \E c \in Conns :
        \/ \E r \in ConcRequests : Receive(c, r)
        \/ SelectCustomer(c)
        \/ InsertCustomer(c)
        \/ SelectItem(c)
        \/ UpdateItem(c)
        \/ InsertBill(c)
        \/ UpdateDues(c)
        \/ InsertItems(c)
        \/ Commit(c)
        \/ StoreFailure(c)
        \/ BusyTimeout(c)

SpecConc == Init /\ [][NextConc]_vars

\* The requests of the other handlers.
FormBN ==
    [brand |-> <<"B">>, product |-> <<"N">>, stock |-> <<"4">>, mrp |-> <<"3">>,
     purchase_rate |-> <<"1">>, wholesale_rate |-> <<"2">>, retail_rate |-> <<"2">>,
     hotel_rate |-> <<"2">>, category |-> <<"g">>, new_category |-> <<>>]

Without(form, key) == [k \in DOMAIN form \ {key} |-> form[k]]

\* A new product; a product that exists; no category; a new category; no MRP.
AddForms ==
    {FormBN, [FormBN EXCEPT !.brand = <<"K">>, !.product = <<"M">>],
     Without(FormBN, "category"), [FormBN EXCEPT !.new_category = <<" ","h"," ">>],
     Without(FormBN, "mrp")}

\* New stock and rates for the product; the brand and name of another product.
EditForms ==
    {Without([FormBN EXCEPT !.brand = <<"K">>, !.product = <<"M">>, !.stock = <<"3">>],
             "new_category"),
     Without([FormBN EXCEPT !.brand = <<"A">>, !.product = <<"G"," ","M">>], "new_category")}

EditIds == {1, 9}
DeleteIds == {<<>>, <<1>>, <<2, 3>>, <<9>>}

SuggestTerms == {<<"m">>, <<"a"," ">>, <<" ">>}
SuggestTypes ==
    {<<"w","h","o","l","e","s","a","l","e">>, <<"R","e","t","a","i","l">>,
     <<"h","o","t","e","l">>, <<"H","o","t","e","l","-","L","i","n","e">>, <<"x">>, <<>>}
NameTerms == {<<"o">>, <<"R","a">>, <<>>}

Pages == {0, 1, 3, 4, 5}
Searches == {<<>>, <<" ","g"," ">>, <<"1">>, <<"c","_","1">>, <<"z">>}
SortColumns == {"ID", "BRAND", "STOCK", "price"}
SortOrders == {<<"a","s","c">>, <<"D","E","S","C">>, <<"u","p">>}

\* Requests of the billing handler between the other handlers' requests.
AppRequests ==
    {BaseReq,
     [BaseReq EXCEPT !.customer_name = "Raj", !.phone = "11",
                     !.payment_method = <<"c","r","e","d","i","t">>],
     [BaseReq EXCEPT !.products = <<Item(nAGM, 1, 1000)>>]}

(***************************************************************************)
(* SpecApp: the requests of every handler of the application, served one   *)
(* after another.                                                          *)
(***************************************************************************)
NextApp ==
    \/ \E r \in AppRequests : Receive(1, r)
    \/ SelectCustomer(1)
    \/ InsertCustomer(1)
    \/ SelectItem(1)
    \/ UpdateItem(1)
    \/ InsertBill(1)
    \/ UpdateDues(1)
    \/ InsertItems(1)
    \/ Commit(1)
    \/ StoreFailure(1)
    \/ Close(1)
    \/ \E form \in AddForms : InventoryAdd(1, form)
    \/ \E id \in EditIds, form \in EditForms : InventoryEdit(1, id, form)
    \/ \E ids \in DeleteIds, page \in {1, 2} : InventoryDelete(1, ids, page)
    \/ \E term \in NameTerms : GetCustomerSuggestions(1, term)
    \/ \E term \in SuggestTerms, type \in SuggestTypes : GetProductSuggestions(1, term, type)
    \/ \E search \in {<<>>, <<" ","g"," ">>}, sort_by \in {"ID", "BRAND"} :
          InventoryPage(1, 1, search, sort_by, <<"D","E","S","C">>)
    \/ GetAllLowStock(1)
    \/ \E id \in EditIds : GetProductData(1, id)
    \/ GetCategories(1)
    \/ Dashboard(1)
    \/ \E search \in {<<>>, <<"1">>} : CustomerReport(1, 1, search)
    \/ \E search \in {<<>>, <<"1">>} : OrderHistory(1, 1, search)

SpecApp == Init /\ [][NextApp]_vars

(***************************************************************************)
(* SpecPages: the three paginated listings over stores of 0 to MaxRows     *)
(* products, customers and bills, as that many inventory_add requests and  *)
(* bills of new customers leave them.                                      *)
(***************************************************************************)
PagedInventory(n) ==
    [id \in 1..n |->
        Product(id, <<"B">> \o Digits(id), <<"P">>,
                IF id % 3 = 0 THEN <<"g">> ELSE <<"e">>,
                id % 7, 2000, 1000, 1100, 1300, 1200)]

PagedCustomers(n) ==
    [k \in 1..n |->
        NewCustomer(k, "C" \o ToString(k), "9" \o ToString(k),
                    IF k % 2 = 0 THEN "RETAIL" ELSE "HOTEL-LINE")]

PagedBills(n) ==
    [k \in 1..n |-> NewBill(k, BaseReq, [NoLoc EXCEPT !.customer_id = k, !.total_items = 1])]

PagedItems(n) ==
    [k \in 1..n |-> NewBillItems(k, k, <<<<nKM, 1, 1000, 0>>>>)[1]]

PagedStore(n) ==
    [inventory |-> PagedInventory(n), inventory_seq |-> n,
     customers |-> PagedCustomers(n), bills |-> PagedBills(n),
     bill_items |-> PagedItems(n)]

InitPages ==
    /\ db \in {PagedStore(n) : n \in 0..MaxRows}
    /\ work = db
    /\ lock = 0
    /\ pc = [c \in Conns |-> "idle"]
    /\ req = [c \in Conns |-> NoReq]
    /\ loc = [c \in Conns |-> NoLoc]
    /\ resp = [c \in Conns |-> NoResp]
    /\ pre = [c \in Conns |-> InitStore]
    /\ view = [c \in Conns |-> NoView]

NextPages ==
    \/ \E page \in Pages, search \in Searches, sort_by \in SortColumns, order \in SortOrders :
          InventoryPage(1, page, search, sort_by, order)
    \/ \E page \in Pages, search \in Searches : CustomerReport(1, page, search)
    \/ \E page \in Pages, search \in Searches : OrderHistory(1, page, search)
    \/ Close(1)

SpecPages == InitPages /\ [][NextPages]_vars

(***************************************************************************)
(* Properties.                                                             *)
(***************************************************************************)
Done(c) == pc[c] = "done"
Succeeded(c) == Done(c) /\ resp[c].status = 200
Failed(c) == Done(c) /\ resp[c].status # 200

RECURSIVE SeqSum(_)
SeqSum(s) == IF s = <<>> THEN 0 ELSE Head(s) + SeqSum(Tail(s))

\* The bill a successful request stored.
BillOf(c) == db.bills[resp[c].bill_id]

\* The stored items of bill number bill_id, in order.
ItemsOf(bill_id) == SelectSeq(db.bill_items, LAMBDA it : it.BILL_ID = bill_id)

\* The product a line's display name resolves to in an inventory.
ResolvedId(inventory, prod_name) == FirstRow(ProductRows(inventory, prod_name))

\* The quantity a list of lines bills for product id.
BilledQuantity(inventory, products, id) ==
    SeqSum([k \in 1..Len(products) |->
               IF id \in ProductRows(inventory, products[k].name)
               THEN products[k].quantity ELSE 0])

\* The stock line k of a request finds: the stock before the request minus
\* what the request's earlier lines took of the same product.
RunningStock(inventory, products, k) ==
    LET id == ResolvedId(inventory, products[k].name)
    IN  inventory[id].STOCK - BilledQuantity(inventory, SubSeq(products, 1, k - 1), id)

\* Sum of quantity times unit price over lines or stored items.
LinesTotal(products) ==
    SeqSum([k \in 1..Len(products) |-> products[k].quantity * products[k].price])

ItemsTotal(items) ==
    SeqSum([k \in 1..Len(items) |-> items[k].QUANTITY * items[k].PRICE])

C2_StockNeverNegative ==
    \A id \in DOMAIN db.inventory :
        db.inventory[id].STOCK >= 0 /\ work.inventory[id].STOCK >= 0

\* A successful bill with the same product on two lines took the whole stock.
C2_Witness ==
    \E c \in Conns :
        /\ Succeeded(c)
        /\ Len(req[c].products) = 2
        /\ req[c].products[1].name = req[c].products[2].name
        /\ db.inventory[1].STOCK = 0
        /\ pre[c].inventory[1].STOCK = 2

\* C3: when two requests for the same product are served at once and both
\* succeed, the product's stock does not end below zero.
C3_NoConcurrentOversell ==
    (\A c \in Conns : Succeeded(c)) =>
        \A id \in DOMAIN db.inventory : db.inventory[id].STOCK >= 0

\* C4: after a successful bill every product's stock is its stock before
\* minus the quantity the bill's lines name for it (0 for a product the
\* bill does not name).
C4_StockAfterSuccess ==
    \A c \in Conns : Succeeded(c) =>
        \A id \in DOMAIN pre[c].inventory :
            db.inventory[id].STOCK =
                pre[c].inventory[id].STOCK
                    - BilledQuantity(pre[c].inventory, req[c].products, id)

\* A successful bill of two lines naming two products.
C4_Witness ==
    \E c \in Conns :
        /\ Succeeded(c)
        /\ Len(req[c].products) = 2
        /\ req[c].products[1].name # req[c].products[2].name
        /\ db.inventory[1].STOCK # pre[c].inventory[1].STOCK
        /\ db.inventory[2].STOCK = pre[c].inventory[2].STOCK

\* A line that is well formed and names a product of the inventory.
LineResolves(inventory, item) ==
    /\ {"name", "quantity", "price"} \subseteq DOMAIN item
    /\ ProductRows(inventory, item.name) # {}

\* C5: a line whose product has less stock than the quantity asked makes
\* the request fail with the insufficient-stock error, which carries the
\* line's product name and the available stock; no bill is created and no
\* stock changes.  No request succeeds with such a line.
C5_InsufficientStockFails ==
    \A c \in Conns :
        LET products == req[c].products
            inventory == pre[c].inventory
            k == loc[c].i
        IN  /\ (Done(c) /\ resp[c].error = "InsufficientStock") =>
                  /\ resp[c].status = 500
                  /\ resp[c].prod_name = products[k].name
                  /\ resp[c].available = RunningStock(inventory, products, k)
                  /\ resp[c].available < products[k].quantity
                  /\ db = pre[c]
            /\ (Failed(c) /\ resp[c].error \in {"KeyError", "ProductNotFound", "InsufficientStock"}
                  /\ LineResolves(inventory, products[k])
                  /\ RunningStock(inventory, products, k) < products[k].quantity) =>
                  resp[c].error = "InsufficientStock"
            /\ Succeeded(c) =>
                  \A j \in 1..Len(products) :
                      RunningStock(inventory, products, j) >= products[j].quantity

\* The second line failed the stock check after the first line's decrement.
C5_Witness ==
    \E c \in Conns :
        /\ Done(c)
        /\ resp[c].error = "InsufficientStock"
        /\ loc[c].i = 2
        /\ resp[c].available < pre[c].inventory[1].STOCK

\* The unpaid amount of customer k before the request (0 for a customer the
\* request created).
UnpaidBefore(c, k) ==
    IF k <= Len(pre[c].customers) THEN pre[c].customers[k].unpaid_amount ELSE 0

\* C6: a successful CREDIT bill raises the billed customer's unpaid amount
\* by the bill's total and leaves every other customer's alone; a
\* successful UPI, CASH or CARD bill leaves every customer's alone.
C6_CreditRaisesUnpaid ==
    \A c \in Conns : Succeeded(c) =>
        LET bill == BillOf(c)
        IN  /\ bill.TOTAL_AMOUNT = req[c].total
            /\ bill.PAYMENT_METHOD \in {sCREDIT, sUPI, sCASH, sCARD}
            /\ \A k \in 1..Len(db.customers) :
                  db.customers[k].unpaid_amount =
                      IF bill.PAYMENT_METHOD = sCREDIT /\ k = bill.CUSTOMER_ID
                      THEN UnpaidBefore(c, k) + bill.TOTAL_AMOUNT
                      ELSE UnpaidBefore(c, k)

\* A successful CREDIT bill of an existing customer with a non-zero total.
C6_Witness ==
    \E c \in Conns :
        /\ Succeeded(c)
        /\ BillOf(c).PAYMENT_METHOD = sCREDIT
        /\ BillOf(c).TOTAL_AMOUNT # 0
        /\ BillOf(c).CUSTOMER_ID <= Len(pre[c].customers)

\* C7: every stored bill has status PENDING if its payment method is CREDIT
\* and SUCCESSFUL otherwise.
C7_StatusPendingIffCredit ==
    \A k \in 1..Len(db.bills) :
        db.bills[k].STATUS =
            IF db.bills[k].PAYMENT_METHOD = sCREDIT THEN "PENDING" ELSE "SUCCESSFUL"

\* The store holds a PENDING bill and a SUCCESSFUL one.
C7_Witness ==
    /\ \E k \in 1..Len(db.bills) : db.bills[k].STATUS = "PENDING"
    /\ \E k \in 1..Len(db.bills) : db.bills[k].STATUS = "SUCCESSFUL"

\* C8 as claimed: for every stored bill the sum over its items of quantity
\* times unit price equals the bill's BILL_AMOUNT.
C8_ItemsSumToSubtotal ==
    \A k \in 1..Len(db.bills) :
        ItemsTotal(ItemsOf(db.bills[k].BILL_ID)) = db.bills[k].BILL_AMOUNT

\* C8 as amended: a successful bill's BILL_AMOUNT is the subtotal the caller
\* supplied and its items carry the request's quantities and prices, so the
\* items' sum equals BILL_AMOUNT exactly when the caller's subtotal equals
\* the sum over its own lines.
C8_SubtotalAsSupplied ==
    \A c \in Conns : Succeeded(c) =>
        LET bill == BillOf(c)
            items == ItemsOf(bill.BILL_ID)
        IN  /\ bill.BILL_AMOUNT = req[c].subtotal
            /\ Len(items) = Len(req[c].products)
            /\ \A k \in 1..Len(items) :
                  /\ items[k].QUANTITY = req[c].products[k].quantity
                  /\ items[k].PRICE = req[c].products[k].price
            /\ (ItemsTotal(items) = bill.BILL_AMOUNT) <=>
                  (req[c].subtotal = LinesTotal(req[c].products))

\* A bill was stored whose caller-supplied subtotal is not its lines' sum.
C8_Witness ==
    \E c \in Conns :
        /\ Succeeded(c)
        /\ req[c].subtotal # LinesTotal(req[c].products)
        /\ BillOf(c).BILL_AMOUNT # ItemsTotal(ItemsOf(BillOf(c).BILL_ID))

\* The profit of a list of lines at the purchase rates of an inventory.
LinesProfit(inventory, products) ==
    SeqSum([k \in 1..Len(products) |->
               (products[k].price
                   - inventory[ResolvedId(inventory, products[k].name)].PURCHASE_RATE)
               * products[k].quantity])

\* C9 as claimed: the stored and the returned profit of a successful bill
\* both equal the sum over its lines of (sale price - purchase rate) times
\* quantity.
C9_ProfitStoredAndReturned ==
    \A c \in Conns : Succeeded(c) =>
        /\ BillOf(c).PROFIT_EARNED = LinesProfit(pre[c].inventory, req[c].products)
        /\ resp[c].profit_earned = LinesProfit(pre[c].inventory, req[c].products)

\* C9 as amended: the stored profit is that sum and the returned profit is
\* the sum rounded to two decimals; each item's unit profit is sale price
\* minus purchase rate; the bill's item count is the sum of the quantities.
C9_ProfitAccrual ==
    \A c \in Conns : Succeeded(c) =>
        LET bill == BillOf(c)
            items == ItemsOf(bill.BILL_ID)
            products == req[c].products
            inventory == pre[c].inventory
        IN  /\ bill.PROFIT_EARNED = LinesProfit(inventory, products)
            /\ resp[c].profit_earned = Round2(LinesProfit(inventory, products))
            /\ Len(items) = Len(products)
            /\ \A k \in 1..Len(items) :
                  items[k].UNIT_PROFIT =
                      products[k].price
                          - inventory[ResolvedId(inventory, products[k].name)].PURCHASE_RATE
            /\ bill.TOTAL_ITEMS = SeqSum([k \in 1..Len(products) |-> products[k].quantity])

\* A successful bill of two lines whose profit is not a whole number of
\* hundredths, so that the returned profit differs from the stored one.
C9_Witness ==
    \E c \in Conns :
        /\ Succeeded(c)
        /\ Len(req[c].products) = 2
        /\ BillOf(c).PROFIT_EARNED # 0
        /\ resp[c].profit_earned # BillOf(c).PROFIT_EARNED

\* C10: a request without a customer name, without a phone or without
\* products is answered 400 and changes nothing in the store.
C10_InvalidRequestRejected ==
    \A c \in Conns :
        (Done(c) /\ \/ req[c].customer_name \in {NoneVal, ""}
                    \/ req[c].phone \in {NoneVal, ""}
                    \/ Len(req[c].products) = 0) =>
            /\ resp[c].status = 400
            /\ db = pre[c]
            /\ work = db
            /\ lock = 0

\* A request with a name and products but an empty phone was rejected.
C10_Witness ==
    \E c \in Conns :
        /\ Done(c)
        /\ resp[c].status = 400
        /\ req[c].phone = ""
        /\ req[c].customer_name = "Raj"
        /\ Len(req[c].products) > 0

\* C13: starting from customers whose aggregates are all >= 0, after any
\* sequence of billing requests every customer's bill_amount, paid_amount and
\* unpaid_amount is still >= 0.
C13_AggregatesNeverNegative ==
    \A k \in 1..Len(db.customers) :
        /\ db.customers[k].bill_amount >= 0
        /\ db.customers[k].paid_amount >= 0
        /\ db.customers[k].unpaid_amount >= 0

\* The customers of request c's phone when the request arrived.
KnownByPhone(c) ==
    {k \in 1..Len(pre[c].customers) : pre[c].customers[k].MOBILE_NO = req[c].phone}

\* The stored customer type the request's spelling names: the three kinds in
\* the spellings of the model's requests, RETAIL for any other text.
ExpectedCustomerType(customer_type) ==
    CASE customer_type = <<"r","e","t","a","i","l">> -> "RETAIL"
      [] customer_type = <<"W","H","O","L","E","S","A","L","E","R">> -> "WHOLESALE"
      [] customer_type = <<"H","o","t","e","l","-","L","i","n","e">> -> "HOTEL-LINE"
      [] OTHER -> "RETAIL"

\* C15: a successful bill of a phone that a customer already has references
\* that customer and creates none; a successful bill of a phone no customer
\* has creates exactly one customer, with the request's name, phone and type,
\* and references it.  The created row's three aggregates are zero when it is
\* inserted, and at the end of the request they are zero but for the dues a
\* CREDIT bill adds to its own customer.
C15_CustomerResolvedByPhone ==
    \A c \in Conns :
        LET before == pre[c].customers
            new_id == Len(before) + 1
        IN  /\ (pc[c] = "sel_item" /\ loc[c].i = 1 /\ KnownByPhone(c) = {}) =>
                  /\ Len(View(c).customers) = new_id
                  /\ View(c).customers[new_id] =
                        [CUSTOMER_ID |-> new_id, CUSTOMER_NAME |-> req[c].customer_name,
                         MOBILE_NO |-> req[c].phone,
                         CUSTOMER_TYPE |-> ExpectedCustomerType(req[c].customer_type),
                         bill_amount |-> 0, paid_amount |-> 0, unpaid_amount |-> 0]
            /\ (Succeeded(c) /\ KnownByPhone(c) # {}) =>
                  /\ BillOf(c).CUSTOMER_ID \in KnownByPhone(c)
                  /\ Len(db.customers) = Len(before)
                  /\ \A k \in 1..Len(before) :
                        /\ db.customers[k].CUSTOMER_NAME = before[k].CUSTOMER_NAME
                        /\ db.customers[k].MOBILE_NO = before[k].MOBILE_NO
                        /\ db.customers[k].CUSTOMER_TYPE = before[k].CUSTOMER_TYPE
            /\ (Succeeded(c) /\ KnownByPhone(c) = {}) =>
                  LET dues == IF BillOf(c).PAYMENT_METHOD = sCREDIT
                              THEN BillOf(c).TOTAL_AMOUNT ELSE 0
                  IN  /\ BillOf(c).CUSTOMER_ID = new_id
                      /\ Len(db.customers) = new_id
                      /\ SubSeq(db.customers, 1, Len(before)) = before
                      /\ db.customers[new_id] =
                            [CUSTOMER_ID |-> new_id, CUSTOMER_NAME |-> req[c].customer_name,
                             MOBILE_NO |-> req[c].phone,
                             CUSTOMER_TYPE |-> ExpectedCustomerType(req[c].customer_type),
                             bill_amount |-> dues, paid_amount |-> 0, unpaid_amount |-> dues]

\* A successful bill created a hotel-line customer for a phone not seen
\* before.
C15_Witness ==
    \E c \in Conns :
        /\ Succeeded(c)
        /\ KnownByPhone(c) = {}
        /\ Len(db.customers) = Len(pre[c].customers) + 1
        /\ db.customers[Len(db.customers)].CUSTOMER_TYPE = "HOTEL-LINE"
        /\ BillOf(c).CUSTOMER_ID = Len(db.customers)

\* C17: whatever quantities a request's lines hold, no product's stock is
\* higher after the request than it was before.
C17_StockNeverIncreases ==
    \A c \in Conns : Done(c) =>
        \A id \in DOMAIN pre[c].inventory :
            db.inventory[id].STOCK <= pre[c].inventory[id].STOCK

\* C18: when two CREDIT requests for the same existing customer are served
\* at once and both succeed, the customer's unpaid_amount and bill_amount
\* each end increased by the sum of the two bills' totals.
C18_NoLostCreditUpdate ==
    (\A c \in Conns : /\ Succeeded(c)
                      /\ IsCredit(req[c].payment_method)
                      /\ req[c].phone = InitCustomers[1].MOBILE_NO) =>
        /\ db.customers[1].unpaid_amount =
              InitCustomers[1].unpaid_amount + req[1].total + req[2].total
        /\ db.customers[1].bill_amount =
              InitCustomers[1].bill_amount + req[1].total + req[2].total

\* Both CREDIT requests of the existing customer committed, and the
\* customer's dues hold more than one bill's total.
C18_Witness ==
    /\ \A c \in Conns : /\ Succeeded(c)
                        /\ IsCredit(req[c].payment_method)
                        /\ req[c].phone = InitCustomers[1].MOBILE_NO
    /\ Len(db.bills) = 2
    /\ db.customers[1].unpaid_amount > InitCustomers[1].unpaid_amount + req[1].total

\* C19: no two customers share a phone, after any sequence or interleaving
\* of billing requests.
C19_PhonesStayDistinct ==
    \A j, k \in 1..Len(db.customers) :
        j # k => db.customers[j].MOBILE_NO # db.customers[k].MOBILE_NO

\* The rate column the caller's customer type selects: wholesale, retail,
\* hotel and hotel-line in any case of letters, the retail rate for any
\* other text.
ClaimedRateColumn(customer_type) ==
    LET type == Upper(customer_type)
    IN  CASE type = sWHOLESALE -> "WHOLESALE_RATE"
          [] type = sRETAIL -> "RETAIL_RATE"
          [] type = sHOTEL -> "HOTEL_RATE"
          [] type = <<"H","O","T","E","L","-","L","I","N","E">> -> "HOTEL_RATE"
          [] OTHER -> "RETAIL_RATE"

\* The products a product-suggestion answer lists, in the answer's order.
SuggestedIds(v) == Ascending(SuggestionMatches(db.inventory, Strip(v.term)))

\* C11: every product the product-suggestion lookup returns carries the
\* sale rate of the caller's customer type: the wholesale rate for
\* wholesale, the retail rate for retail, the hotel rate for hotel and for
\* hotel-line, the retail rate for an unrecognized type.
C11_RateByCustomerType ==
    \A c \in Conns : view[c].handler = "get_product_suggestions" =>
        /\ Len(view[c].body) <= Len(SuggestedIds(view[c]))
        /\ \A k \in 1..Len(view[c].body) :
              view[c].body[k].price =
                  db.inventory[SuggestedIds(view[c])[k]][ClaimedRateColumn(view[c].customer_type)]

\* C12: whatever handler runs, the bills and bill items stored before stay,
\* in place and unchanged, and bills or bill items are added only by the
\* commit of a billing request that succeeds.
C12_BillsAppendOnly ==
    [][/\ Len(db'.bills) >= Len(db.bills)
       /\ SubSeq(db'.bills, 1, Len(db.bills)) = db.bills
       /\ Len(db'.bill_items) >= Len(db.bill_items)
       /\ SubSeq(db'.bill_items, 1, Len(db.bill_items)) = db.bill_items
       /\ (db'.bills # db.bills \/ db'.bill_items # db.bill_items) =>
             \E c \in Conns : pc[c] = "commit" /\ Succeeded(c)']_vars

\* A product was deleted from the inventory whose bill and bill item are
\* stored.
C12_Witness ==
    /\ pc[1] = "served"
    /\ view[1].handler = "inventory_delete"
    /\ view[1].status = 200
    /\ Len(db.bills) > 0
    /\ \E k \in 1..Len(db.bill_items) :
          ProductRows(db.inventory, db.bill_items[k].PRODUCT_NAME) = {}

\* ceil(n / d) for n > 0: the least k with k * d >= n.
Ceiling(n, d) == CHOOSE k \in 1..n : k * d >= n /\ (k - 1) * d < n

\* The rows a listing's answer holds, the page size of the listing, and the
\* number of rows of the store that match the answer's filter.
ListedRows(v) ==
    CASE v.handler = "inventory_page" -> v.products
      [] v.handler = "customer_report" -> v.customers
      [] v.handler = "order_history" -> v.orders

ClaimedPageSize(v) ==
    CASE v.handler = "inventory_page" -> 10
      [] v.handler = "customer_report" -> 15
      [] v.handler = "order_history" -> 10

MatchingRows(v) ==
    CASE v.handler = "inventory_page" ->
             Cardinality({id \in DOMAIN db.inventory :
                             InventoryFilter(db.inventory[id], v.search_query)})
      [] v.handler = "customer_report" ->
             Cardinality({k \in 1..Len(db.customers) :
                             CustomerFilter(db.customers[k], v.search_query)})
      [] v.handler = "order_history" ->
             Cardinality({k \in 1..Len(db.bills) :
                             OrderFilter(Orders(db.bills, db.customers)[k], v.search_query)})

\* C14: a listing of the inventory, of the customers or of the orders
\* answers with total_pages = ceil(matching rows / page size) when a row
\* matches its filter and 1 when none does, and with no more rows than its
\* page size (10, 15, 10), whatever page is asked for.
C14_Pagination ==
    \A c \in Conns :
        view[c].handler \in {"inventory_page", "customer_report", "order_history"} =>
            /\ view[c].total_pages =
                  IF MatchingRows(view[c]) > 0
                  THEN Ceiling(MatchingRows(view[c]), ClaimedPageSize(view[c]))
                  ELSE 1
            /\ Len(ListedRows(view[c])) <= ClaimedPageSize(view[c])

\* The customer report over 31 customers: three pages, the last one asked
\* for, holding one row.
C14_Witness ==
    /\ view[1].handler = "customer_report"
    /\ view[1].search_query = <<>>
    /\ Len(db.customers) = 31
    /\ view[1].page = 3
    /\ view[1].total_pages = 3
    /\ Len(view[1].customers) = 1

\* C16: every display name the product-suggestion lookup returns (brand, one
\* space, product) is resolved by the billing handler's split on the first
\* space to the product it was made from, and to no other.
C16_DisplayNameResolvesBack ==
    \A c \in Conns : view[c].handler = "get_product_suggestions" =>
        \A k \in 1..Len(view[c].body) :
            ProductRows(db.inventory, view[c].body[k].name) = {SuggestedIds(view[c])[k]}

=============================================================================
